---- MODULE Spec2Model ----
(***************************************************************************)
(* Model of the STM32 FSMCv1 SDRAM low level driver (fsmc_sdram.c).        *)
(*                                                                         *)
(* The driver object SDRAMD holds a lifecycle flag and a pointer to the    *)
(* memory mapped SDRAM register block.  fsmcSdramInit, fsmcSdramStart and  *)
(* fsmcSdramStop are modelled statement by statement: every thread has a   *)
(* program counter, and every register access of a call is one step, so    *)
(* that the controller (which clears the busy flag on its own) and other   *)
(* callers can interleave with it.                                         *)
(*                                                                         *)
(* trace records, in order, every register write, every status poll that   *)
(* read "not busy" (the poll that ends a readiness wait; polls that read   *)
(* busy change nothing and are not recorded) and every 1 ms sleep.         *)
(***************************************************************************)
EXTENDS Integers, Sequences, FiniteSets, TLC

VARIABLES
  state,     \* SDRAMD.state
  sdramPtr,  \* SDRAMD.sdram
  fsmc,      \* FSMCD1.state
  regs,      \* the writable registers of the SDRAM register block
  sdsr,      \* the status register SDSR
  banks,     \* the banks compiled as in use (STM32_SDRAM_USE_FSMC_SDRAMn)
  callers,   \* the threads that call the driver
  stuck,     \* the controller has failed and never clears BUSY again
  cfgs,      \* the configuration records the callers pass
  asserts,   \* the build enables debug assertions (osalDbgAssert)
  rd,        \* per thread: sdramp->state as last loaded by the assertion
  ptr,       \* per thread: SDRAMD.sdram as last loaded by the current call
  cur,       \* the thread the scheduler is running
  switches,  \* number of switches away from a thread inside a call
  pc,        \* per thread: position in the current call
  op,        \* per thread: the function being executed
  cfg,       \* per thread: *cfgp of the current fsmcSdramStart call
  seen,      \* per thread: sdramp->state as read by the if of line 166
  base,      \* per thread: length of trace when the current call was made
  trace,     \* history of register accesses and sleeps
  prev,      \* the function that returned last
  calls      \* number of calls made so far

vars == <<state, sdramPtr, fsmc, regs, sdsr, banks, callers, stuck, asserts,
          cfgs, pc, op, cfg, seen, rd, ptr, base, trace, prev, calls, cur,
          switches>>

----------------------------------------------------------------------------
(* Bounds *)

MaxCalls == 4

\* Switches away from a thread that is inside a call.
MaxSwitches == 1

----------------------------------------------------------------------------
(* Constants of the driver and of the register block *)

FMC_Command_Mode_CLK_Enabled == 1
FMC_Command_Mode_PALL == 2
FMC_Command_Mode_AutoRefresh == 3
FMC_Command_Mode_LoadMode == 4

FMC_SDCMR_MODE == 7
FMC_SDCMR_CTB2 == 8
FMC_SDCMR_CTB1 == 16
FMC_SDCMR_NRFS == 480
FMC_SDCMR_MRD == 4193792
FMC_SDSR_BUSY == 32

Threads == {1, 2}

RegNames == {"SDCR1", "SDTR1", "SDCR2", "SDTR2", "SDCMR", "SDRTR"}

\* Configuration records a caller may pass.  The second sdcmr value has bits
\* set outside the NRFS and MRD fields (mode, target bank and reserved bits).
SDRAMConfig == [sdcr : {720, 6484}, sdtr : {17912673, 268435455},
                sdcmr : {287328, 12607743}, sdrtr : {2772, 3078}]

NoConfig == [sdcr |-> 0, sdtr |-> 0, sdcmr |-> 0, sdrtr |-> 0]

----------------------------------------------------------------------------
(* uint32_t bit operations *)

RECURSIVE BitAnd(_, _)
BitAnd(a, b) ==
  IF a = 0 \/ b = 0 THEN 0
  ELSE (a % 2) * (b % 2) + 2 * BitAnd(a \div 2, b \div 2)

RECURSIVE BitOr(_, _)
BitOr(a, b) ==
  IF a = 0 THEN b
  ELSE IF b = 0 THEN a
  ELSE (IF a % 2 = 1 \/ b % 2 = 1 THEN 1 ELSE 0)
         + 2 * BitOr(a \div 2, b \div 2)

----------------------------------------------------------------------------
(* Pure parts of the code *)

\* while (SDRAMD.sdram->SDSR & FMC_SDSR_BUSY);  -- the loop is left when the
\* masked status reads zero.
WaitExitAlways(s) == TRUE
WaitExit(s) == BitAnd(s, FMC_SDSR_BUSY) = 0

\* command_target of _sdram_init_sequence
command_target(b) ==
  BitOr(IF 1 \in b THEN FMC_SDCMR_CTB1 ELSE 0,
        IF 2 \in b THEN FMC_SDCMR_CTB2 ELSE 0)

\* The word written to SDCMR at each command step.
CmdWordSecondBare(p, c, b) ==
  CASE p = "cmd_clk" ->
         BitOr(FMC_Command_Mode_CLK_Enabled, command_target(b))
    [] p = "cmd_pall" ->
         BitOr(FMC_Command_Mode_PALL, command_target(b))
    [] p = "cmd_ar1" ->
         BitOr(BitOr(FMC_Command_Mode_AutoRefresh, command_target(b)),
               BitAnd(c.sdcmr, FMC_SDCMR_NRFS))
    [] p = "cmd_ar2" ->
         BitOr(FMC_Command_Mode_AutoRefresh, command_target(b))
    [] p = "cmd_lmr" ->
         BitOr(BitOr(FMC_Command_Mode_LoadMode, command_target(b)),
               BitAnd(c.sdcmr, FMC_SDCMR_MRD))
CmdWordUnmasked(p, c, b) ==
  CASE p = "cmd_clk" ->
         BitOr(FMC_Command_Mode_CLK_Enabled, command_target(b))
    [] p = "cmd_pall" ->
         BitOr(FMC_Command_Mode_PALL, command_target(b))
    [] p \in {"cmd_ar1", "cmd_ar2"} ->
         BitOr(BitOr(FMC_Command_Mode_AutoRefresh, command_target(b)),
               BitAnd(c.sdcmr, FMC_SDCMR_NRFS))
    [] p = "cmd_lmr" ->
         BitOr(BitOr(FMC_Command_Mode_LoadMode, command_target(b)),
               BitAnd(c.sdcmr, FMC_SDCMR_MRD + FMC_SDCMR_NRFS))
CmdWord(p, c, b) ==
  CASE p = "cmd_clk" ->
         BitOr(FMC_Command_Mode_CLK_Enabled, command_target(b))
    [] p = "cmd_pall" ->
         BitOr(FMC_Command_Mode_PALL, command_target(b))
    [] p \in {"cmd_ar1", "cmd_ar2"} ->
         BitOr(BitOr(FMC_Command_Mode_AutoRefresh, command_target(b)),
               BitAnd(c.sdcmr, FMC_SDCMR_NRFS))
    [] p = "cmd_lmr" ->
         BitOr(BitOr(FMC_Command_Mode_LoadMode, command_target(b)),
               BitAnd(c.sdcmr, FMC_SDCMR_MRD))

\* The four bank register assignments of fsmcSdramStart.
BankRegOneBank(p) ==
  IF p \in {"w_sdcr1", "w_sdcr2"} THEN "SDCR1" ELSE "SDTR1"
BankReg(p) ==
  CASE p = "w_sdcr1" -> "SDCR1"
    [] p = "w_sdtr1" -> "SDTR1"
    [] p = "w_sdcr2" -> "SDCR2"
    [] p = "w_sdtr2" -> "SDTR2"

BankValueMixed(p, c) ==
  IF p \in {"w_sdcr1", "w_sdcr2", "w_sdtr2"} THEN c.sdcr ELSE c.sdtr
BankValue(p, c) ==
  IF p \in {"w_sdcr1", "w_sdcr2"} THEN c.sdcr ELSE c.sdtr

\* osalDbgAssert((state == SDRAM_STOP) || (state == SDRAM_READY), ...)
\* s1 is the value of sdramp->state used by the first comparison, s2 the
\* value used by the second one ("none" while it has not been evaluated).
AssertHoldsAlways(s1, s2) == TRUE
AssertHolds(s1, s2) == s1 = "STOP" \/ s2 = "READY"

\* if (sdramp->state == SDRAM_STOP) { ... }
RunsSequenceAlways(s) == s \in {"STOP", "READY"}
RunsSequence(s) == s = "STOP"

\* fsmcSdramStop: if (state == SDRAM_READY) state = SDRAM_STOP;
StopStateUninit(s) == IF s = "READY" THEN "UNINIT" ELSE s
StopStateToggle(s) ==
  IF s = "READY" THEN "STOP" ELSE IF s = "STOP" THEN "READY" ELSE s
StopStateKept(s) == s
StopState(s) == IF s = "READY" THEN "STOP" ELSE s

BankPcs == {"w_sdcr1", "w_sdtr1", "w_sdcr2", "w_sdtr2"}
WaitPcs == {"wait1", "wait2", "wait3", "wait4", "wait5", "wait6"}
CmdPcs == {"cmd_clk", "cmd_pall", "cmd_ar1", "cmd_ar2", "cmd_lmr"}

\* Program order of the statements of each function.  The two assignments of
\* fsmcSdramInit are plain stores to two fields of SDRAMD with nothing that
\* orders them: a build emits them in source order (init_ptr, init_state) or
\* the other way round (init_state_first, init_ptr_second).
ProgramOrder(p) ==
  CASE p = "init_fsmc" -> "init_ptr"
    [] p = "init_ptr" -> "init_state"
    [] p = "init_state" -> "ret"
    [] p = "init_state_first" -> "init_ptr_second"
    [] p = "init_ptr_second" -> "ret"
    [] p = "chk_fsmc" -> "assert"
    [] p = "assert" -> "chk_state"
    [] p = "w_sdcr1" -> "w_sdtr1"
    [] p = "w_sdtr1" -> "w_sdcr2"
    [] p = "w_sdcr2" -> "w_sdtr2"
    [] p = "w_sdtr2" -> "wait1"
    [] p = "wait1" -> "cmd_clk"
    [] p = "cmd_clk" -> "delay"
    [] p = "delay" -> "wait2"
    [] p = "wait2" -> "cmd_pall"
    [] p = "cmd_pall" -> "wait3"
    [] p = "wait3" -> "cmd_ar1"
    [] p = "cmd_ar1" -> "cmd_ar2"
    [] p = "cmd_ar2" -> "wait4"
    [] p = "wait4" -> "cmd_lmr"
    [] p = "cmd_lmr" -> "wait5"
    [] p = "wait5" -> "w_sdrtr"
    [] p = "w_sdrtr" -> "wait6"
    [] p = "wait6" -> "set_ready"
    [] p = "set_ready" -> "ret"
    [] p = "stop_chk" -> "ret"

\* The statement executed after statement p.
AfterNoDelay(p) == IF p = "cmd_clk" THEN "wait2" ELSE ProgramOrder(p)
AfterNoFinalWait(p) ==
  IF p = "w_sdrtr" THEN "set_ready" ELSE ProgramOrder(p)
AfterInitNoState(p) == IF p = "init_ptr" THEN "ret" ELSE ProgramOrder(p)
AfterOneRefresh(p) == IF p = "cmd_ar1" THEN "wait4" ELSE ProgramOrder(p)
AfterRefreshFirst(p) ==
  CASE p = "cmd_ar2" -> "wait5"
    [] p = "w_sdrtr" -> "wait4"
    [] p = "cmd_lmr" -> "wait6"
    [] OTHER -> ProgramOrder(p)
AfterReadyEarly(p) ==
  CASE p = "w_sdtr2" -> "set_ready"
    [] p = "set_ready" -> "wait1"
    [] p = "wait6" -> "ret"
    [] OTHER -> ProgramOrder(p)
AfterNoReady(p) == IF p = "wait6" THEN "ret" ELSE ProgramOrder(p)
After(p) == ProgramOrder(p)

----------------------------------------------------------------------------
(* History helpers *)

WriteEv(r, v) == [ev |-> "write", reg |-> r, val |-> v]
PollEv(v) == [ev |-> "poll", reg |-> "SDSR", val |-> v]
SleepEv(ms) == [ev |-> "sleep", reg |-> "none", val |-> ms]

\* An access made through a null SDRAMD.sdram that did not trap: it went to
\* whatever is at that address, not to the register block.
StrayEv(r, v) == [ev |-> "stray", reg |-> r, val |-> v]

\* chSysHalt stops the whole system, and so does the trap taken on an access
\* through a null pointer.
Running == \A u \in Threads : pc[u] \notin {"halted", "fault"}

\* Thread t executes a statement: it is the running thread, or the scheduler
\* switches to it.  Switching away from a thread that is inside a call
\* (preempted, or asleep in osalThreadSleepMilliseconds) is counted; switching
\* away from a thread that is between calls is not.
Run(t) ==
  \/ cur = t /\ UNCHANGED <<cur, switches>>
  \/ cur # t /\ pc[cur] = "idle" /\ cur' = t /\ UNCHANGED switches
  \/ cur # t /\ pc[cur] # "idle" /\ switches < MaxSwitches /\ cur' = t
     /\ switches' = switches + 1

Goto(t, p) == pc' = [pc EXCEPT ![t] = p] /\ Run(t)

----------------------------------------------------------------------------
(* Initial state: SDRAMD is a zero initialised static object, the register  *)
(* block holds its reset values and the controller is idle.                 *)

InitCommon ==
  /\ state = "UNINIT"
  /\ sdramPtr = "NULL"
  /\ fsmc = "UNINIT"
  /\ regs = [r \in RegNames |->
               CASE r \in {"SDCR1", "SDCR2"} -> 720
                 [] r \in {"SDTR1", "SDTR2"} -> 268435455
                 [] OTHER -> 0]
  /\ sdsr = 0
  /\ banks \in {{1}, {2}, {1, 2}}
  /\ pc = [t \in Threads |-> "idle"]
  /\ op = [t \in Threads |-> "none"]
  /\ cfg = [t \in Threads |-> NoConfig]
  /\ seen = [t \in Threads |-> "none"]
  /\ rd = [t \in Threads |-> "none"]
  /\ ptr = [t \in Threads |-> "none"]
  /\ base = [t \in Threads |-> 0]
  /\ trace = << >>
  /\ prev = "none"
  /\ calls = 0
  /\ stuck = FALSE
  /\ cur = 1
  /\ switches = 0

\* Serialized use: one caller, any configuration.
Init ==
  InitCommon /\ callers = {1} /\ cfgs = SDRAMConfig /\ asserts \in BOOLEAN

----------------------------------------------------------------------------
(* Calls *)

Enter(t, f, p, c) ==
  /\ t \in callers
  /\ Running
  /\ pc[t] = "idle"
  /\ calls < MaxCalls
  /\ calls' = calls + 1
  /\ Goto(t, p)
  /\ op' = [op EXCEPT ![t] = f]
  /\ cfg' = [cfg EXCEPT ![t] = c]
  /\ seen' = [seen EXCEPT ![t] = "none"]
  /\ rd' = [rd EXCEPT ![t] = "none"]
  /\ ptr' = [ptr EXCEPT ![t] = "none"]
  /\ base' = [base EXCEPT ![t] = Len(trace)]
  /\ UNCHANGED <<state, sdramPtr, fsmc, regs, sdsr, banks, callers, stuck,
                 asserts, cfgs, trace, prev>>

CallInit(t) == Enter(t, "init", "init_fsmc", NoConfig)

CallStart(t, c) == c \in cfgs /\ Enter(t, "start", "chk_fsmc", c)

CallStop(t) == Enter(t, "stop", "stop_chk", NoConfig)

Return(t) ==
  /\ Running
  /\ pc[t] = "ret"
  /\ Goto(t, "idle")
  /\ prev' = op[t]
  /\ op' = [op EXCEPT ![t] = "none"]
  /\ cfg' = [cfg EXCEPT ![t] = NoConfig]
  /\ seen' = [seen EXCEPT ![t] = "none"]
  /\ rd' = [rd EXCEPT ![t] = "none"]
  /\ ptr' = [ptr EXCEPT ![t] = "none"]
  /\ UNCHANGED <<state, sdramPtr, fsmc, regs, sdsr, banks, callers, stuck,
                 asserts, cfgs, base, trace, calls>>

----------------------------------------------------------------------------
(* fsmcSdramInit *)

\* fsmc_init(): the parent bus driver leaves UNINIT once.  The call is
\* followed by the two stores, in the order the build has given them.
FsmcInit(t) ==
  /\ Running
  /\ pc[t] = "init_fsmc"
  /\ fsmc' = IF fsmc = "UNINIT" THEN "STOP" ELSE fsmc
  /\ \E p \in {After(pc[t]), "init_state_first"} : Goto(t, p)
  /\ UNCHANGED <<state, sdramPtr, regs, sdsr, banks, callers, stuck,
                 asserts, cfgs, op, cfg, seen, rd, ptr, base, trace, prev,
                 calls>>

\* SDRAMD.sdram = FSMCD1.sdram;
BindPtr(t) ==
  /\ Running
  /\ pc[t] \in {"init_ptr", "init_ptr_second"}
  /\ sdramPtr' = "FSMC_SDRAM"
  /\ Goto(t, After(pc[t]))
  /\ UNCHANGED <<state, fsmc, regs, sdsr, banks, callers, stuck, asserts,
                 cfgs, op, cfg, seen, rd, ptr, base, trace, prev, calls>>

\* SDRAMD.state = SDRAM_STOP;
InitState(t) ==
  /\ Running
  /\ pc[t] \in {"init_state", "init_state_first"}
  /\ state' = "STOP"
  /\ Goto(t, After(pc[t]))
  /\ UNCHANGED <<sdramPtr, fsmc, regs, sdsr, banks, callers, stuck, asserts,
                 cfgs, op, cfg, seen, rd, ptr, base, trace, prev, calls>>

----------------------------------------------------------------------------
(* fsmcSdramStart *)

\* if (FSMCD1.state == FSMC_STOP) fsmc_start(&FSMCD1);
FsmcStart(t) ==
  /\ Running
  /\ pc[t] = "chk_fsmc"
  /\ fsmc' = IF fsmc = "STOP" THEN "READY" ELSE fsmc
  /\ Goto(t, After(pc[t]))
  /\ UNCHANGED <<state, sdramPtr, regs, sdsr, banks, callers, stuck,
                 asserts, cfgs, op, cfg, seen, rd, ptr, base, trace,
                 prev, calls>>

\* osalDbgAssert, first comparison.  In a build without debug assertions
\* the macro expands to nothing.  Otherwise sdramp->state is loaded and
\* compared with SDRAM_STOP; the second comparison is evaluated only when
\* the first one is false.
DbgAssert(t) ==
  /\ Running
  /\ pc[t] = "assert"
  /\ IF asserts
       THEN /\ rd' = [rd EXCEPT ![t] = state]
            /\ Goto(t, IF AssertHolds(state, "none") THEN After("assert")
                                                     ELSE "assert2")
       ELSE /\ UNCHANGED rd
            /\ Goto(t, After("assert"))
  /\ UNCHANGED <<state, sdramPtr, fsmc, regs, sdsr, banks, callers, stuck,
                 asserts, cfgs, op, cfg, seen, ptr, base, trace,
                 prev, calls>>

\* osalDbgAssert, second comparison.  sdramp->state is not protected against
\* concurrent writers: the build either loads it again or uses the value it
\* already holds.  A failed assertion halts the system.
DbgAssert2(t) ==
  /\ Running
  /\ pc[t] = "assert2"
  /\ \E v \in {state, rd[t]} :
       /\ rd' = [rd EXCEPT ![t] = v]
       /\ Goto(t, IF AssertHolds(rd[t], v) THEN After("assert")
                                           ELSE "halted")
  /\ UNCHANGED <<state, sdramPtr, fsmc, regs, sdsr, banks, callers, stuck,
                 asserts, cfgs, op, cfg, seen, ptr, base, trace,
                 prev, calls>>

\* if (sdramp->state == SDRAM_STOP): the build either loads sdramp->state or
\* uses the value the assertion has loaded.
CheckState(t) ==
  /\ Running
  /\ pc[t] = "chk_state"
  /\ \E v \in {state} \cup ({rd[t]} \ {"none"}) :
       /\ seen' = [seen EXCEPT ![t] = v]
       /\ Goto(t, IF RunsSequence(v) THEN "w_sdcr1" ELSE "ret")
  /\ UNCHANGED <<state, sdramPtr, fsmc, regs, sdsr, banks, callers, stuck,
                 asserts, cfgs, op, cfg, rd, ptr, base, trace,
                 prev, calls>>

\* The value of SDRAMD.sdram an access of thread t goes through.  The field
\* is not protected against concurrent writers: the build loads it for the
\* access or uses the value it has loaded earlier in the call.
PtrValues(t) == {sdramPtr} \cup ({ptr[t]} \ {"none"})

\* A store of v to register r through a null pointer is undefined: it traps
\* (the system stops), or it goes elsewhere and the register block is left
\* as it is.
NullStore(t, r, v) ==
  \/ /\ Goto(t, "fault")
     /\ UNCHANGED trace
  \/ /\ Goto(t, After(pc[t]))
     /\ trace' = Append(trace, StrayEv(r, v))

\* sdramp->sdram->banks[i].SDCR/SDTR = cfgp->sdcr/sdtr;
WriteBank(t) ==
  /\ Running
  /\ pc[t] \in BankPcs
  /\ \E p \in PtrValues(t) :
       /\ ptr' = [ptr EXCEPT ![t] = p]
       /\ IF p = "FSMC_SDRAM"
            THEN /\ regs' = [regs EXCEPT
                               ![BankReg(pc[t])] = BankValue(pc[t], cfg[t])]
                 /\ trace' = Append(trace, WriteEv(BankReg(pc[t]),
                                                   BankValue(pc[t], cfg[t])))
                 /\ Goto(t, After(pc[t]))
            ELSE /\ NullStore(t, BankReg(pc[t]), BankValue(pc[t], cfg[t]))
                 /\ UNCHANGED regs
  /\ UNCHANGED <<state, sdramPtr, fsmc, sdsr, banks, callers, stuck,
                 asserts, cfgs, op, cfg, seen, rd, base, prev, calls>>

\* _sdram_wait_ready(): one poll of SDSR.  A load through a null pointer
\* traps or returns whatever is at that address.
WaitReady(t) ==
  /\ Running
  /\ pc[t] \in WaitPcs
  /\ \E p \in PtrValues(t) :
       IF p = "FSMC_SDRAM"
         THEN IF WaitExit(sdsr)
                THEN /\ Goto(t, After(pc[t]))
                     /\ trace' = Append(trace, PollEv(sdsr))
                     /\ ptr' = [ptr EXCEPT ![t] = p]
                ELSE UNCHANGED <<pc, trace, cur, switches, ptr>>
         ELSE \/ /\ Goto(t, "fault")
                 /\ ptr' = [ptr EXCEPT ![t] = p]
                 /\ UNCHANGED trace
              \/ \E s \in {0, FMC_SDSR_BUSY} :
                   IF WaitExit(s)
                     THEN /\ Goto(t, After(pc[t]))
                          /\ trace' = Append(trace, StrayEv("SDSR", s))
                          /\ ptr' = [ptr EXCEPT ![t] = p]
                     ELSE UNCHANGED <<pc, trace, cur, switches, ptr>>
  /\ UNCHANGED <<state, sdramPtr, fsmc, regs, sdsr, banks, callers, stuck,
                 asserts, cfgs, op, cfg, seen, rd, base, prev, calls>>

\* SDRAMD.sdram->SDCMR = ...;  the controller is busy while it executes the
\* request.
WriteCmd(t) ==
  /\ Running
  /\ pc[t] \in CmdPcs
  /\ \E p \in PtrValues(t) :
       /\ ptr' = [ptr EXCEPT ![t] = p]
       /\ IF p = "FSMC_SDRAM"
            THEN /\ regs' = [regs EXCEPT
                               !["SDCMR"] = CmdWord(pc[t], cfg[t], banks)]
                 /\ trace' = Append(trace,
                               WriteEv("SDCMR", CmdWord(pc[t], cfg[t], banks)))
                 /\ sdsr' = BitOr(sdsr, FMC_SDSR_BUSY)
                 /\ Goto(t, After(pc[t]))
            ELSE /\ NullStore(t, "SDCMR", CmdWord(pc[t], cfg[t], banks))
                 /\ UNCHANGED <<regs, sdsr>>
  /\ UNCHANGED <<state, sdramPtr, fsmc, banks, callers, stuck, asserts,
                 cfgs, op, cfg, seen, rd, base, prev, calls>>

\* osalThreadSleepMilliseconds(1);  SDRAMD.sdram is loaded again after the
\* call.
Sleep(t) ==
  /\ Running
  /\ pc[t] = "delay"
  /\ trace' = Append(trace, SleepEv(1))
  /\ ptr' = [ptr EXCEPT ![t] = "none"]
  /\ Goto(t, After(pc[t]))
  /\ UNCHANGED <<state, sdramPtr, fsmc, regs, sdsr, banks, callers, stuck,
                 asserts, cfgs, op, cfg, seen, rd, base, prev, calls>>

\* SDRAMD.sdram->SDRTR = cfgp->sdrtr;  the code waits for the controller
\* after this write as well, so the controller may report busy after it.
WriteSdrtr(t) ==
  /\ Running
  /\ pc[t] = "w_sdrtr"
  /\ \E p \in PtrValues(t) :
       /\ ptr' = [ptr EXCEPT ![t] = p]
       /\ IF p = "FSMC_SDRAM"
            THEN /\ regs' = [regs EXCEPT !["SDRTR"] = cfg[t].sdrtr]
                 /\ trace' = Append(trace, WriteEv("SDRTR", cfg[t].sdrtr))
                 /\ sdsr' = BitOr(sdsr, FMC_SDSR_BUSY)
                 /\ Goto(t, After(pc[t]))
            ELSE /\ NullStore(t, "SDRTR", cfg[t].sdrtr)
                 /\ UNCHANGED <<regs, sdsr>>
  /\ UNCHANGED <<state, sdramPtr, fsmc, banks, callers, stuck, asserts,
                 cfgs, op, cfg, seen, rd, base, prev, calls>>

\* sdramp->state = SDRAM_READY;
SetReady(t) ==
  /\ Running
  /\ pc[t] = "set_ready"
  /\ state' = "READY"
  /\ Goto(t, After(pc[t]))
  /\ UNCHANGED <<sdramPtr, fsmc, regs, sdsr, banks, callers, stuck, asserts,
                 cfgs, op, cfg, seen, rd, ptr, base, trace,
                 prev, calls>>

----------------------------------------------------------------------------
(* fsmcSdramStop *)

Stop(t) ==
  /\ Running
  /\ pc[t] = "stop_chk"
  /\ state' = StopState(state)
  /\ Goto(t, After(pc[t]))
  /\ UNCHANGED <<sdramPtr, fsmc, regs, sdsr, banks, callers, stuck, asserts,
                 cfgs, op, cfg, seen, rd, ptr, base, trace,
                 prev, calls>>

----------------------------------------------------------------------------
(* The SDRAM controller finishes the request and clears BUSY. *)

HwClear ==
  /\ ~stuck
  /\ BitAnd(sdsr, FMC_SDSR_BUSY) # 0
  /\ sdsr' = sdsr - FMC_SDSR_BUSY
  /\ UNCHANGED <<state, sdramPtr, fsmc, regs, banks, callers, stuck,
                 asserts, cfgs, pc, op, cfg, seen, rd, base, trace, prev,
                 calls, cur, switches, ptr>>

\* Hardware fault: the controller hangs while busy; BUSY never clears again.
HwFault ==
  /\ ~stuck
  /\ BitAnd(sdsr, FMC_SDSR_BUSY) # 0
  /\ stuck' = TRUE
  /\ UNCHANGED <<state, sdramPtr, fsmc, regs, sdsr, banks, callers, asserts,
                 cfgs,
                 pc, op, cfg, seen, rd, base, trace, prev, calls, cur,
                 switches, ptr>>

----------------------------------------------------------------------------

Step(t) ==
  \/ FsmcInit(t)
  \/ BindPtr(t)
  \/ InitState(t)
  \/ FsmcStart(t)
  \/ DbgAssert(t)
  \/ DbgAssert2(t)
  \/ CheckState(t)
  \/ WriteBank(t)
  \/ WaitReady(t)
  \/ WriteCmd(t)
  \/ Sleep(t)
  \/ WriteSdrtr(t)
  \/ SetReady(t)
  \/ Stop(t)
  \/ Return(t)

Next ==
  \/ \E t \in Threads : CallInit(t)
  \/ \E t \in Threads, c \in SDRAMConfig : CallStart(t, c)
  \/ \E t \in Threads : CallStop(t)
  \/ \E t \in Threads : Step(t)
  \/ HwClear

Spec == Init /\ [][Next]_vars

\* The scheduler runs every thread that is inside a call, and the controller
\* finishes every request.
LiveSpec == Spec /\ WF_vars(HwClear) /\ \A t \in Threads : WF_vars(Step(t))

\* Serialized use on hardware that may hang.
NextFault == Next \/ HwFault

FaultSpec == Init /\ [][NextFault]_vars

\* Two threads call the driver without serializing their calls.
ConcConfig == {[sdcr |-> 720, sdtr |-> 17912673, sdcmr |-> 287328,
                sdrtr |-> 2772],
               [sdcr |-> 6484, sdtr |-> 268435455, sdcmr |-> 12607743,
                sdrtr |-> 3078]}

\* The concurrent runs use the build with both banks and with debug
\* assertions enabled.
InitConc ==
  /\ InitCommon /\ callers = {1, 2} /\ cfgs = ConcConfig
  /\ asserts = TRUE /\ banks = {1, 2}

ConcSpec == InitConc /\ [][Next]_vars

----------------------------------------------------------------------------
(* Observations on the history *)

\* The register accesses and sleeps of the current call of thread t.
CallTrace(t) == SubSeq(trace, base[t] + 1, Len(trace))

IsWrite(e) == e.ev = "write"
IsCmdWrite(e) == e.ev = "write" /\ e.reg = "SDCMR"
IsStray(e) == e.ev = "stray"

Writes(s) == SelectSeq(s, IsWrite)
CmdWrites(s) == SelectSeq(s, IsCmdWrite)

\* The command code is the MODE field of the command word.
CodesOf(s) == [i \in 1..Len(s) |-> BitAnd(s[i].val, FMC_SDCMR_MODE)]
RegsOf(s) == [i \in 1..Len(s) |-> s[i].reg]
ValsOf(s) == [i \in 1..Len(s) |-> s[i].val]

IsPrefix(a, b) == Len(a) <= Len(b) /\ \A i \in 1..Len(a) : a[i] = b[i]

\* Value of the last write to register r in the history.
LastWritten(r) ==
  LET idx == {i \in 1..Len(trace) :
                trace[i].ev = "write" /\ trace[i].reg = r}
  IN  trace[CHOOSE i \in idx : \A j \in idx : j <= i].val

EverWritten(r) ==
  \E i \in 1..Len(trace) : trace[i].ev = "write" /\ trace[i].reg = r

Busy == BitAnd(sdsr, FMC_SDSR_BUSY) # 0

StartReturns(t) == op[t] = "start" /\ pc[t] = "ret"

InitSequenceCodes == <<1, 2, 3, 3, 4>>

----------------------------------------------------------------------------
(* Claims *)

\* C1: a fsmcSdramStart call made while STOPPED writes SDCMR exactly five
\* times, with command codes 1, 2, 3, 3, 4 in this order, and no other
\* register is written between the first and the fifth command write.  At
\* every point of the call the command codes written so far are a prefix of
\* that sequence, the command writes are contiguous among the writes, and at
\* the return the sequence is complete.
C1_CommandOrder ==
  \A t \in callers :
    op[t] = "start" =>
      LET w == Writes(CallTrace(t))
          c == CmdWrites(CallTrace(t))
      IN  /\ IsPrefix(CodesOf(c), InitSequenceCodes)
          /\ \A i, j, k \in 1..Len(w) :
               (i < j /\ j < k /\ w[i].reg = "SDCMR" /\ w[k].reg = "SDCMR")
                 => w[j].reg = "SDCMR"
          /\ (pc[t] = "ret" /\ seen[t] = "STOP")
               => CodesOf(c) = InitSequenceCodes

C1_Witness ==
  \E t \in callers :
    /\ StartReturns(t) /\ seen[t] = "STOP"
    /\ Len(CmdWrites(CallTrace(t))) = 5
    /\ regs["SDCMR"] % 8 = 4

\* C2 as stated: whenever a fsmcSdramStart(cfg) call returns, both banks'
\* control registers equal cfg.sdcr and both timing registers equal
\* cfg.sdtr.
C2_BanksEqualConfigAnyStart ==
  \A t \in callers :
    StartReturns(t) =>
      /\ regs["SDCR1"] = cfg[t].sdcr /\ regs["SDCR2"] = cfg[t].sdcr
      /\ regs["SDTR1"] = cfg[t].sdtr /\ regs["SDTR2"] = cfg[t].sdtr

\* C2 amended: when a fsmcSdramStart(cfg) call that found the driver STOPPED
\* returns, both banks' control registers equal cfg.sdcr and both timing
\* registers equal cfg.sdtr.
C2_BanksEqualConfig ==
  \A t \in callers :
    (StartReturns(t) /\ seen[t] = "STOP") =>
      /\ regs["SDCR1"] = cfg[t].sdcr /\ regs["SDCR2"] = cfg[t].sdcr
      /\ regs["SDTR1"] = cfg[t].sdtr /\ regs["SDTR2"] = cfg[t].sdtr

C2_Witness ==
  \E t \in callers :
    /\ StartReturns(t) /\ seen[t] = "STOP"
    /\ regs["SDCR1"] = 6484 /\ regs["SDCR2"] = 6484
    /\ regs["SDTR1"] = 17912673 /\ regs["SDTR2"] = 17912673
    /\ base[t] > 0

\* C3: when a fsmcSdramStart(cfg) call made while STOPPED returns, SDRTR
\* holds cfg.sdrtr; within the call the SDRTR write comes after the
\* load-mode-register command write and is the last register write.  During
\* the call, SDRTR is never written before load-mode-register.
C3_RefreshTimerLast ==
  \A t \in callers :
    op[t] = "start" =>
      LET w == Writes(CallTrace(t))
      IN  /\ \A i \in 1..Len(w) :
               w[i].reg = "SDRTR" =>
                 /\ i = Len(w)
                 /\ \E j \in 1..(i - 1) :
                      w[j].reg = "SDCMR" /\ w[j].val % 8 = 4
          /\ (pc[t] = "ret" /\ seen[t] = "STOP") =>
               /\ regs["SDRTR"] = cfg[t].sdrtr
               /\ Len(w) > 0
               /\ w[Len(w)] = WriteEv("SDRTR", cfg[t].sdrtr)

C3_Witness ==
  \E t \in callers :
    /\ StartReturns(t) /\ seen[t] = "STOP"
    /\ cfg[t].sdrtr = 3078 /\ regs["SDRTR"] = 3078
    /\ Writes(CallTrace(t))[10].reg = "SDRTR"

\* C4: a fsmcSdramStart call made while READY writes no register and leaves
\* the state READY, whatever its configuration: during and at the end of
\* such a call its history is empty, the state is READY and every register
\* holds the value last written to it by the earlier start.
C4_ReadyStartWritesNothing ==
  \A t \in callers :
    (op[t] = "start" /\ (seen[t] = "READY" \/
                          (seen[t] = "none" /\ state = "READY"))) =>
      /\ CallTrace(t) = << >>
      /\ state = "READY"
      /\ \A r \in RegNames : EverWritten(r) /\ regs[r] = LastWritten(r)

C4_Witness ==
  \E t \in callers :
    /\ StartReturns(t) /\ seen[t] = "READY"
    /\ cfg[t].sdcr # regs["SDCR1"] /\ cfg[t].sdtr # regs["SDTR1"]
    /\ cfg[t].sdrtr # regs["SDRTR"]
    /\ prev = "start"

\* C5: after start and then stop, a further fsmcSdramStart(cfg2) re-runs the
\* complete write sequence with cfg2 (four bank writes, the five ordered
\* commands, the SDRTR write) and ends with state READY.
C5_RestartRerunsSequence ==
  \A t \in callers :
    (StartReturns(t) /\ prev = "stop" /\ base[t] > 0) =>
      LET w == Writes(CallTrace(t))
      IN  /\ RegsOf(w) = <<"SDCR1", "SDTR1", "SDCR2", "SDTR2", "SDCMR",
                           "SDCMR", "SDCMR", "SDCMR", "SDCMR", "SDRTR">>
          /\ SubSeq(ValsOf(w), 1, 4) = <<cfg[t].sdcr, cfg[t].sdtr,
                                         cfg[t].sdcr, cfg[t].sdtr>>
          /\ CodesOf(SubSeq(w, 5, 9)) = InitSequenceCodes
          /\ w[10].val = cfg[t].sdrtr
          /\ state = "READY"

C5_Witness ==
  \E t \in callers :
    /\ StartReturns(t) /\ prev = "stop" /\ base[t] > 0
    /\ Len(Writes(CallTrace(t))) = 10
    /\ trace[1].val # cfg[t].sdcr
    /\ state = "READY"

\* C6: fsmcSdramStop never writes or polls a register: every step of a stop
\* call leaves the registers, the status register and the history unchanged;
\* it changes the state flag only from READY to STOPPED, and from any other
\* state it changes nothing.
C6_StopTouchesNoRegister ==
  [][\A t \in Threads :
       ((op[t] = "stop" \/ op'[t] = "stop") /\ pc'[t] # pc[t]) =>
         /\ regs' = regs /\ sdsr' = sdsr /\ trace' = trace
         /\ sdramPtr' = sdramPtr /\ fsmc' = fsmc
         /\ IF pc[t] = "stop_chk" /\ state = "READY"
              THEN state' = "STOP"
              ELSE state' = state]_vars

C6_Witness ==
  \E t \in callers :
    /\ op[t] = "stop" /\ pc[t] = "ret" /\ prev = "stop"
    /\ state = "STOP" /\ Len(trace) > 0 /\ CallTrace(t) = << >>

\* C7: whenever fsmcSdramStart returns, the busy flag of the status register
\* is clear: a call that ran the sequence has polled "not busy" after its
\* last write, and a call that skipped it has written nothing since the last
\* such poll (or since reset).
C7_IdleAtEveryReturn ==
  \A t \in callers : StartReturns(t) => ~Busy

C7_Witness ==
  \E t \in callers :
    /\ StartReturns(t) /\ seen[t] = "STOP" /\ ~Busy
    /\ trace[Len(trace)] = PollEv(0)

\* C8 as stated: a fsmcSdramStart call made while the state flag is neither
\* STOPPED nor READY fails at the assertion: it never gets past it, writes
\* no register and leaves the state flag as it was.
C8_AssertionAlwaysFatal ==
  \A t \in callers :
    (op[t] = "start" /\ state \notin {"STOP", "READY"}) =>
      /\ pc[t] \in {"chk_fsmc", "assert", "assert2", "halted"}
      /\ CallTrace(t) = << >>
      /\ state = "UNINIT"

\* C8 amended: a fsmcSdramStart call made while the state flag is neither
\* STOPPED nor READY writes no register, issues no command and leaves the
\* state flag as it was; in a build with debug assertions it never gets past
\* the assertion (the system halts there), in a build without them the call
\* skips the sequence and returns.
C8_AssertionGuardsStart ==
  \A t \in callers :
    (op[t] = "start" /\ state \notin {"STOP", "READY"}) =>
      /\ asserts => pc[t] \in {"chk_fsmc", "assert", "assert2", "halted"}
      /\ ~asserts => pc[t] \in {"chk_fsmc", "assert", "chk_state", "ret"}
      /\ CallTrace(t) = << >>
      /\ trace = << >>
      /\ state = "UNINIT"
      /\ \A r \in RegNames : ~EverWritten(r)

C8_Witness ==
  \E t \in callers :
    asserts /\ op[t] = "start" /\ pc[t] = "halted" /\ state = "UNINIT"

\* C9: if the controller always eventually clears the busy flag, every
\* fsmcSdramStart call made while STOPPED eventually returns, with state
\* READY.
C9_StartTerminates ==
  \A t \in Threads :
    (op[t] = "start" /\ pc[t] = "chk_fsmc" /\ state = "STOP")
      ~> (op[t] = "start" /\ pc[t] = "ret" /\ state = "READY")

C9_Witness ==
  \E t \in callers :
    /\ StartReturns(t) /\ seen[t] = "STOP" /\ state = "READY"
    /\ Len(CallTrace(t)) = 17

\* C10: in serialized use the command register is written only while the
\* lifecycle state is STOPPED; while the state is READY no command is issued.
C10_CommandsOnlyWhenStopped ==
  [][(/\ Len(trace') = Len(trace) + 1
      /\ IsCmdWrite(trace'[Len(trace')]))
       => (state = "STOP" /\ state' = "STOP")]_vars

C10_Witness ==
  \E t \in callers :
    /\ op[t] = "start" /\ pc[t] = "wait5" /\ state = "STOP"
    /\ Len(CmdWrites(CallTrace(t))) = 5

----------------------------------------------------------------------------
(* Further observations *)

IsPoll(e) == e.ev = "poll"
IsSleep(e) == e.ev = "sleep"
IsCmd(e, code) == IsCmdWrite(e) /\ BitAnd(e.val, FMC_SDCMR_MODE) = code

\* The bits lo .. lo+width-1 of v, in place.
Field(v, lo, width) == ((v \div (2 ^ lo)) % (2 ^ width)) * (2 ^ lo)

\* Thread t is between the state check and the READY assignment of
\* fsmcSdramStart.
InSequence(t) ==
  op[t] = "start" /\ pc[t] \in BankPcs \cup WaitPcs \cup CmdPcs
                               \cup {"delay", "w_sdrtr", "set_ready"}

\* ev and reg of the 17 register accesses of one initialization.
Kind(e) == <<e.ev, e.reg>>
KindsOf(s) == [i \in 1..Len(s) |-> Kind(s[i])]
FullSequenceKinds ==
  << <<"write", "SDCR1">>, <<"write", "SDTR1">>, <<"write", "SDCR2">>,
     <<"write", "SDTR2">>, <<"poll", "SDSR">>, <<"write", "SDCMR">>,
     <<"sleep", "none">>, <<"poll", "SDSR">>, <<"write", "SDCMR">>,
     <<"poll", "SDSR">>, <<"write", "SDCMR">>, <<"write", "SDCMR">>,
     <<"poll", "SDSR">>, <<"write", "SDCMR">>, <<"poll", "SDSR">>,
     <<"write", "SDRTR">>, <<"poll", "SDSR">> >>

\* C11 as stated: before each of the five command writes of the
\* initialization sequence, a status poll that read "not busy" occurs after
\* the previous command write (if any).
C11_PollBeforeEveryCommand ==
  \A t \in callers :
    op[t] = "start" =>
      LET tr == CallTrace(t)
      IN  \A i \in 1..Len(tr) :
            IsCmdWrite(tr[i]) =>
              \E j \in 1..(i - 1) :
                /\ IsPoll(tr[j]) /\ tr[j].val = 0
                /\ \A k \in (j + 1)..(i - 1) : ~IsCmdWrite(tr[k])

\* C12: the first auto-refresh write is preceded by a readiness wait and the
\* second follows it immediately, with no poll, sleep or other write in
\* between, and both carry the same command word.
C12_BackToBackRefresh ==
  \A t \in callers :
    op[t] = "start" =>
      LET tr == CallTrace(t)
          ar == {i \in 1..Len(tr) : IsCmd(tr[i], 3)}
      IN  /\ Cardinality(ar) <= 2
          /\ \A i \in ar :
               \/ /\ i > 1 /\ IsPoll(tr[i - 1])
                  /\ i < Len(tr) => (i + 1 \in ar /\ tr[i + 1] = tr[i])
                  /\ i = Len(tr) => pc[t] = "cmd_ar2"
               \/ /\ i > 2 /\ (i - 1) \in ar /\ tr[i - 1] = tr[i]
                  /\ IsPoll(tr[i - 2])
          /\ (pc[t] = "ret" /\ seen[t] = "STOP") => Cardinality(ar) = 2

C12_Witness ==
  \E t \in callers :
    /\ op[t] = "start" /\ pc[t] = "wait4"
    /\ Len(CallTrace(t)) = 12
    /\ IsCmd(CallTrace(t)[11], 3) /\ IsCmd(CallTrace(t)[12], 3)
    /\ CallTrace(t)[11].val = CallTrace(t)[12].val
    /\ BitAnd(CallTrace(t)[12].val, FMC_SDCMR_NRFS) # 0
    /\ Busy

\* C13: in every run of the initialization sequence the 1 ms sleep happens
\* exactly once, directly after the clock-enable write and before the
\* readiness wait and the write of precharge-all.
C13_SingleDelay ==
  \A t \in callers :
    op[t] = "start" =>
      LET tr == CallTrace(t)
          sl == {i \in 1..Len(tr) : IsSleep(tr[i])}
      IN  /\ Cardinality(sl) <= 1
          /\ \A i \in sl :
               /\ tr[i].val = 1
               /\ i > 1 /\ IsCmd(tr[i - 1], 1)
               /\ (i + 1 <= Len(tr)) => IsPoll(tr[i + 1])
               /\ (i + 2 <= Len(tr)) => IsCmd(tr[i + 2], 2)
          /\ \A i \in 1..Len(tr) :
               IsCmd(tr[i], 2) => (i > 2 /\ (i - 2) \in sl)
          /\ \A i \in 1..(Len(tr) - 1) :
               IsCmd(tr[i], 1) => (i + 1) \in sl
          /\ (pc[t] = "ret" /\ seen[t] = "STOP") => Cardinality(sl) = 1

C13_Witness ==
  \E t \in callers :
    /\ op[t] = "start" /\ pc[t] = "wait3"
    /\ IsCmd(CallTrace(t)[6], 1) /\ IsSleep(CallTrace(t)[7])
    /\ IsPoll(CallTrace(t)[8]) /\ IsCmd(CallTrace(t)[9], 2)

\* C14: each of the five command words is its command code plus the target
\* bank mask (CTB1 = 16 if bank 1 is in use, CTB2 = 8 if bank 2 is in use);
\* clock-enable and precharge-all carry nothing else, both auto-refresh words
\* carry exactly the NRFS field (bits 5..8) of cfg.sdcmr, and
\* load-mode-register carries exactly its MRD field (bits 9..21).
C14_CommandWords ==
  \A t \in callers :
    op[t] = "start" =>
      LET target == (IF 1 \in banks THEN 16 ELSE 0)
                      + (IF 2 \in banks THEN 8 ELSE 0)
          nrfs == Field(cfg[t].sdcmr, 5, 4)
          mrd == Field(cfg[t].sdcmr, 9, 13)
          words == <<1 + target, 2 + target, 3 + target + nrfs,
                     3 + target + nrfs, 4 + target + mrd>>
          w == ValsOf(CmdWrites(CallTrace(t)))
      IN  /\ IsPrefix(w, words)
          /\ (pc[t] = "ret" /\ seen[t] = "STOP") => w = words

C14_Witness ==
  \E t \in callers :
    /\ StartReturns(t) /\ seen[t] = "STOP"
    /\ cfg[t].sdcmr = 12607743
    /\ banks = {2}
    /\ ValsOf(CmdWrites(CallTrace(t))) = <<9, 10, 235, 235, 24588>>

\* C15: once the controller hangs with BUSY set while fsmcSdramStart is in a
\* readiness wait, the call stays in that wait for ever: every further step
\* leaves its position, the registers, the history and the state unchanged,
\* the state is STOPPED and not READY, and the four bank registers already
\* hold the new configuration.
C15_StuckWaitBlocks ==
  [][\A t \in callers :
       (stuck /\ Busy /\ op[t] = "start" /\ pc[t] \in WaitPcs) =>
         /\ pc'[t] = pc[t] /\ op'[t] = "start"
         /\ stuck' /\ Busy'
         /\ regs' = regs /\ trace' = trace
         /\ state = "STOP" /\ state' = "STOP"
         /\ regs["SDCR1"] = cfg[t].sdcr /\ regs["SDCR2"] = cfg[t].sdcr
         /\ regs["SDTR1"] = cfg[t].sdtr /\ regs["SDTR2"] = cfg[t].sdtr]_vars

C15_Witness ==
  \E t \in callers :
    /\ stuck /\ Busy /\ op[t] = "start" /\ pc[t] = "wait3"
    /\ state = "STOP"
    /\ regs["SDCR1"] = 6484 /\ regs["SDTR2"] = 17912673
    /\ regs["SDRTR"] = 0 /\ cfg[t].sdrtr = 3078

\* C16: whenever no start call is in progress, bank 1's control register
\* equals bank 2's and bank 1's timing register equals bank 2's.
C16_BanksMatch ==
  (\A t \in Threads : op[t] # "start") =>
    (regs["SDCR1"] = regs["SDCR2"] /\ regs["SDTR1"] = regs["SDTR2"])

C16_Witness ==
  /\ \A t \in Threads : pc[t] = "idle"
  /\ prev = "stop"
  /\ regs["SDCR1"] = 6484 /\ regs["SDCR2"] = 6484
  /\ regs["SDTR1"] = 17912673 /\ regs["SDTR2"] = 17912673

\* C17: once fsmcSdramInit has set the state, the lifecycle flag stays in
\* {STOPPED, READY} under every serialized sequence of init, start and stop
\* calls; the assertion of fsmcSdramStart fails only while the flag has never
\* been initialized.
C17_StateStaysValid ==
  [][/\ state \in {"STOP", "READY"} => state' \in {"STOP", "READY"}
     /\ \A t \in callers :
          /\ (op'[t] = "init" /\ pc'[t] = "ret") => state' = "STOP"
          /\ (pc[t] # "halted" /\ pc'[t] = "halted") =>
               (state = "UNINIT" /\ prev # "init" /\ trace = << >>)]_vars

C17_Witness ==
  \E t \in callers :
    /\ op[t] = "start" /\ pc[t] = "chk_state" /\ state = "STOP"
    /\ prev = "init" /\ Len(trace) = 17

\* C18: in serialized use, whenever the state is READY the history ends with
\* one complete initialization (four bank writes, five command writes with
\* their waits and the sleep, the SDRTR write, the final wait) and no
\* register has been written since.
C18_ReadyOnlyAfterFullSequence ==
  state = "READY" =>
    /\ Len(trace) >= 17
    /\ LET tail == SubSeq(trace, Len(trace) - 16, Len(trace))
       IN  /\ KindsOf(tail) = FullSequenceKinds
           /\ CodesOf(CmdWrites(tail)) = InitSequenceCodes
           /\ \A r \in RegNames : regs[r] = LastWritten(r)
           /\ regs["SDCR1"] = tail[1].val /\ regs["SDTR1"] = tail[2].val
           /\ regs["SDCR2"] = tail[3].val /\ regs["SDTR2"] = tail[4].val
           /\ regs["SDCMR"] = tail[14].val /\ regs["SDRTR"] = tail[16].val
    /\ ~Busy

C18_Witness ==
  /\ state = "READY" /\ Len(trace) = 34
  /\ \A t \in Threads : pc[t] = "idle"
  /\ prev = "start"

\* C19: the driver has no mutual exclusion.  Two unserialized start calls on
\* a STOPPED handle can both pass the state check and be inside the
\* initialization sequence together (the witness); whenever two such calls
\* overlap and both have finished their sequence, every access of which went
\* to the register block, the command register has seen at least ten command
\* writes since the earlier call began, and not the single five-command
\* sequence.
C19_NoMutualExclusion ==
  \A t \in callers :
    \A u \in callers \ {t} :
      (/\ op[t] = "start" /\ seen[t] = "STOP"
       /\ op[u] = "start" /\ seen[u] = "STOP"
       /\ pc[t] = "set_ready" /\ pc[u] \in {"set_ready", "ret"}) =>
        LET from == IF base[t] < base[u] THEN base[t] ELSE base[u]
            w == SubSeq(trace, from + 1, Len(trace))
            c == CmdWrites(w)
        IN  (\A i \in 1..Len(w) : ~IsStray(w[i])) =>
              (Len(c) >= 10 /\ CodesOf(c) # InitSequenceCodes)

C19_Witness ==
  /\ InSequence(1) /\ InSequence(2)
  /\ pc[1] = "delay" /\ pc[2] = "wait3"
  /\ CodesOf(CmdWrites(SubSeq(trace, base[1] + 1, Len(trace))))
       = <<1, 1, 2>>

\* C20: fsmcSdramInit binds the register pointer and sets the state to
\* STOPPED whatever the state was, and accesses no register; after an init
\* on programmed hardware the next start runs the full sequence again.
C20_InitResets ==
  [][\A t \in callers :
       /\ ((op[t] = "init" \/ op'[t] = "init") /\ pc'[t] # pc[t]) =>
            (regs' = regs /\ sdsr' = sdsr /\ trace' = trace)
       /\ (op'[t] = "init" /\ pc'[t] = "ret") =>
            (state' = "STOP" /\ sdramPtr' = "FSMC_SDRAM")
       /\ (op'[t] = "start" /\ pc'[t] = "ret" /\ prev' = "init"
             /\ base'[t] > 0) =>
            /\ Len(trace') = base'[t] + 17
            /\ KindsOf(SubSeq(trace', base'[t] + 1, Len(trace')))
                 = FullSequenceKinds
            /\ state' = "READY"]_vars

C20_Witness ==
  \E t \in callers :
    /\ StartReturns(t) /\ prev = "init" /\ base[t] = 17
    /\ Len(trace) = 34 /\ state = "READY"

====
